---- MODULE Spec2Model ----
(***************************************************************************)
(* State-machine model of src/update-blocks.js: the per-account block-list *)
(* synchronisation (updateBlocks / fetchAndStoreBlocks / handleIds /        *)
(* finalizeBlockBatch), the diff of successive BlockBatches                 *)
(* (diffBatchWithPrevious), the deactivation filter                         *)
(* (recordUnblocksUnlessDeactivated), the action recorder (recordAction)    *)
(* and the pruner (destroyOldBlocks).                                       *)
(*                                                                         *)
(* Every promise continuation / callback of the source is one action: the  *)
(* node event loop runs a continuation to completion, so each action is    *)
(* atomic, and the points where a network or database call is outstanding  *)
(* are the task's "pc" values.                                             *)
(***************************************************************************)
EXTENDS Integers, Sequences, FiniteSets, TLC

VARIABLES
  activeFetches,  \* uid -> run (promise) registered, NoRun when the key is absent
  runs,           \* the fetchAndStoreBlocks orchestrations started so far
  lastReturn,     \* uid -> what the latest updateBlocks(user) call returned
  batches,        \* BlockBatch table: id -> row
  batchSeq,       \* BlockBatch auto-increment counter (last id handed out)
  blocks,         \* Block table: BlockBatchId -> sink_uids in insertion order
  twitterUsers,   \* TwitterUser table: set of uids
  diffs,          \* diffBatchWithPrevious invocations
  lookups,        \* twitter.users('lookup') calls of the deactivation filter
  recs,           \* recordAction invocations
  actions,        \* Action table, row id = index
  annotated,      \* AnnotatedBlock table: set of rows
  annotatedSeq,   \* AnnotatedBlock auto-increment counter (last id handed out)
  prunes,         \* destroyOldBlocks invocations
  now,            \* wall clock, milliseconds
  annotatedBlockDefined, \* whether the free identifier AnnotatedBlock resolves
  remote,         \* uid -> the listings /blocks/ids will serve to successive runs
  budget          \* how many more runs / 429s / request errors / db errors may occur

vars == <<activeFetches, runs, lastReturn, batches, batchSeq, blocks,
          twitterUsers, diffs, lookups, recs, actions, annotated, annotatedSeq,
                 prunes, now,
          annotatedBlockDefined, remote, budget>>

syncVars == <<activeFetches, runs, lastReturn, batches, batchSeq, blocks,
              twitterUsers, remote, budget>>

----------------------------------------------------------------------------
(* Bounds of the model.                                                    *)

MaxRuns == 2          \* updateBlocks calls that start a run (Spec)
MaxRateLimits == 1    \* 429 responses of /blocks/ids
MaxErrors == 1        \* other request errors of /blocks/ids
MaxDbErrors == 1      \* failed persistence operations of a run
MaxRetentionRuns == 5 \* runs of SpecRetention
MaxSequentialRuns == 6 \* runs of SpecSequential
MaxOverBatch == 1     \* removed ids beyond one lookup batch (SpecFilter)
MaxCalls == 2         \* direct recordAction calls (SpecRecord)
MaxTicks == 3         \* clock steps of half a dedup window (SpecRecord)

Users == {"u1"}

----------------------------------------------------------------------------
(* Values.                                                                 *)

NoRun == 0            \* activeFetches[uid] undefined
NoBatch == 0          \* blockBatch === null

BLOCK == "block"
UNBLOCK == "unblock"
EXTERNAL == "external"
DONE == "done"

\* The pagination cursors of /blocks/ids as strings: "-1" asks for the first
\* page, page k > 1 is asked for with Cursors[k], "0" ends the pagination.
Cursors == <<"-1", "2", "3">>
StartCursor == "-1"
EndCursor == "0"
NullCursor == "null"

PageIndex(cursor) == CHOOSE k \in 1..Len(Cursors) : Cursors[k] = cursor

\* results[0].ids of the request made with `cursor`
PageIds(listing, cursor) == listing[PageIndex(cursor)]

\* results[0].next_cursor_str of the request made with `cursor`
NextCursorStr(listing, cursor) ==
  IF PageIndex(cursor) < Len(listing)
    THEN Cursors[PageIndex(cursor) + 1]
    ELSE EndCursor

SeqToSet(s) == {s[i] : i \in 1..Len(s)}

\* var currentCursor = cursor || '-1';
CurrentCursor(cursor) == IF cursor = NullCursor THEN StartCursor ELSE cursor

----------------------------------------------------------------------------
(* updateBlocks                                                            *)

\* (mutation) the guard never sees the pending fetch
HasPendingFetchIgnored(uid) == FALSE

\* (mutation) an entry whose run has ended no longer counts as pending
HasPendingFetchOnlyLive(uid) ==
  activeFetches[uid] # NoRun /\ runs[activeFetches[uid]].pc # "done"

\* if (activeFetches[user.uid])
HasPendingFetch(uid) == activeFetches[uid] # NoRun

\* (mutation) the registered promise is handed to the second caller
PendingReturnHandle(uid) ==
  [kind |-> "promise", run |-> activeFetches[uid], warned |-> TRUE]

\* logger.warn(...); return Q.resolve(null): a new promise, already resolved
\* with null
PendingReturn(uid) == [kind |-> "null", run |-> NoRun, warned |-> TRUE]

NewRun(uid) ==
  [user |-> uid,
   blockBatch |-> NoBatch,           \* the closure's blockBatch (its id)
   cursor |-> CurrentCursor(NullCursor),
   pc |-> "request",
   outcome |-> "none",
   listing |-> Head(remote[uid]),    \* what /blocks/ids holds during this run
   size |-> 0,                       \* blockBatch.size of the in-memory instance
   pending |-> {},                   \* handleIds' persistence calls not yet settled
   reqs |-> <<>>,                    \* answered /blocks/ids requests: cursor, status
   afterPrune |-> \A p \in 1..Len(prunes) :
                     prunes[p].userId = uid => prunes[p].pc = "done"]
                                     \* started after the earlier prunes ended

\* updateBlocks(user): lines 81-86 when a fetch is registered, else line 160.
StartSync(uid) ==
  IF HasPendingFetch(uid)
    THEN /\ lastReturn' = [lastReturn EXCEPT ![uid] = PendingReturn(uid)]
         /\ UNCHANGED <<activeFetches, runs, remote, budget>>
    ELSE /\ budget.runs > 0
         /\ budget' = [budget EXCEPT !.runs = @ - 1]
         /\ runs' = Append(runs, NewRun(uid))
         /\ activeFetches' = [activeFetches EXCEPT ![uid] = Len(runs) + 1]
         /\ lastReturn' = [lastReturn EXCEPT ![uid] =
                                [kind |-> "promise", run |-> Len(runs) + 1,
                                 warned |-> FALSE]]
         /\ remote' = [remote EXCEPT ![uid] =
                         IF Len(@) > 1 THEN Tail(@) ELSE @]

UpdateBlocks(uid) ==
  /\ StartSync(uid)
  /\ UNCHANGED <<batches, batchSeq, blocks, twitterUsers, diffs,
                 lookups, recs, actions, annotated, annotatedSeq,
                 prunes, now,
                 annotatedBlockDefined>>

----------------------------------------------------------------------------
(* fetchAndStoreBlocks, handleIds, finalizeBlockBatch                      *)

HandleIdsOps == {"save", "users", "blocks"}

\* The .catch of fetchAndStoreBlocks for an error that is not a retried 429:
\* Q.resolve(null); nothing else is touched.
Abort(run, how) == [run EXCEPT !.pc = "done", !.outcome = how]

\* handleIds up to its three persistence calls: the in-memory BlockBatch gets
\* the cursor and the grown size, and save / bulkCreate / bulkCreate are issued.
EnterHandleIds(run, batchId) ==
  [run EXCEPT !.blockBatch = batchId,
              !.size = @ + Len(PageIds(run.listing, run.cursor)),
              !.pending = HandleIdsOps,
              !.pc = "handle"]

\* The request of line 104 is answered successfully.
ResponseOk(r) ==
  /\ runs[r].pc = "request"
  /\ runs' = [runs EXCEPT ![r] =
       LET logged == [runs[r] EXCEPT
                        !.reqs = Append(@, <<runs[r].cursor, "ok">>)]
       IN IF logged.blockBatch = NoBatch
            THEN [logged EXCEPT !.pc = "create"]
            ELSE EnterHandleIds(logged, logged.blockBatch)]
  /\ UNCHANGED <<activeFetches, lastReturn, batches, batchSeq, blocks,
                 twitterUsers, remote, budget>>
  /\ UNCHANGED <<diffs, lookups, recs, actions, annotated, annotatedSeq,
                 prunes, now,
                 annotatedBlockDefined>>

\* (mutation) a 429 is retried after the delay also when no BlockBatch exists
ResponseRateLimitedAlwaysRetry(r) ==
  /\ runs[r].pc = "request"
  /\ budget.rate > 0
  /\ budget' = [budget EXCEPT !.rate = @ - 1]
  /\ runs' = [runs EXCEPT ![r] =
       [runs[r] EXCEPT !.reqs = Append(@, <<runs[r].cursor, "429">>),
                       !.pc = "delay"]]
  /\ UNCHANGED <<activeFetches, lastReturn, batches, batchSeq, blocks,
                 twitterUsers, remote>>
  /\ UNCHANGED <<diffs, lookups, recs, actions, annotated, annotatedSeq,
                 prunes, now,
                 annotatedBlockDefined>>

\* The request is answered 429: lines 136-152.
ResponseRateLimited(r) ==
  /\ runs[r].pc = "request"
  /\ budget.rate > 0
  /\ budget' = [budget EXCEPT !.rate = @ - 1]
  /\ runs' = [runs EXCEPT ![r] =
       LET logged == [runs[r] EXCEPT
                        !.reqs = Append(@, <<runs[r].cursor, "429">>)]
       IN IF logged.blockBatch = NoBatch
            THEN Abort(logged, "silent")
            ELSE [logged EXCEPT !.pc = "delay"]]
  /\ UNCHANGED <<activeFetches, lastReturn, batches, batchSeq, blocks,
                 twitterUsers, remote>>
  /\ UNCHANGED <<diffs, lookups, recs, actions, annotated, annotatedSeq,
                 prunes, now,
                 annotatedBlockDefined>>

\* The request fails with another status: lines 153-156.
ResponseError(r) ==
  /\ runs[r].pc = "request"
  /\ budget.err > 0
  /\ budget' = [budget EXCEPT !.err = @ - 1]
  /\ runs' = [runs EXCEPT ![r] =
       Abort([runs[r] EXCEPT !.reqs = Append(@, <<runs[r].cursor, "error">>)],
             "error")]
  /\ UNCHANGED <<activeFetches, lastReturn, batches, batchSeq, blocks,
                 twitterUsers, remote>>
  /\ UNCHANGED <<diffs, lookups, recs, actions, annotated, annotatedSeq,
                 prunes, now,
                 annotatedBlockDefined>>

\* (mutation) the retry is made without the cursor of the failed request
RetryCursorLost(run) == CurrentCursor(NullCursor)

\* fetchAndStoreBlocks(user, blockBatch, currentCursor) after Q.delay: the
\* cursor the retry is made with.
RetryCursor(run) == CurrentCursor(run.cursor)

\* (mutation) the delay has no continuation: the promise resolves undefined
DelayElapsedNoRetry(r) ==
  /\ runs[r].pc = "delay"
  /\ runs' = [runs EXCEPT ![r] = [runs[r] EXCEPT !.pc = "done"]]
  /\ UNCHANGED <<activeFetches, lastReturn, batches, batchSeq, blocks,
                 twitterUsers, remote, budget>>
  /\ UNCHANGED <<diffs, lookups, recs, actions, annotated, annotatedSeq,
                 prunes, now,
                 annotatedBlockDefined>>

\* Q.delay(15 * 60 * 1000) elapses: lines 148-151.
DelayElapsed(r) ==
  /\ runs[r].pc = "delay"
  /\ runs' = [runs EXCEPT ![r] =
                [runs[r] EXCEPT !.pc = "request", !.cursor = RetryCursor(runs[r])]]
  /\ UNCHANGED <<activeFetches, lastReturn, batches, batchSeq, blocks,
                 twitterUsers, remote, budget>>
  /\ UNCHANGED <<diffs, lookups, recs, actions, annotated, annotatedSeq,
                 prunes, now,
                 annotatedBlockDefined>>

NewBlockBatch(uid) ==
  [source_uid |-> uid, size |-> 0, complete |-> FALSE,
   currentCursor |-> NullCursor]

\* BlockBatch.create resolves (lines 117-123), then handleIds starts.
CreateBatch(r) ==
  /\ runs[r].pc = "create"
  /\ batchSeq' = batchSeq + 1
  /\ batches' = (batchSeq + 1 :> NewBlockBatch(runs[r].user)) @@ batches
  /\ blocks' = (batchSeq + 1 :> <<>>) @@ blocks
  /\ runs' = [runs EXCEPT ![r] = EnterHandleIds(runs[r], batchSeq + 1)]
  /\ UNCHANGED <<activeFetches, lastReturn, twitterUsers, remote, budget>>
  /\ UNCHANGED <<diffs, lookups, recs, actions, annotated, annotatedSeq,
                 prunes, now,
                 annotatedBlockDefined>>

\* BlockBatch.create rejects: the .catch logs and resolves null.
CreateBatchFails(r) ==
  /\ runs[r].pc = "create"
  /\ budget.db > 0
  /\ budget' = [budget EXCEPT !.db = @ - 1]
  /\ runs' = [runs EXCEPT ![r] = Abort(runs[r], "error")]
  /\ UNCHANGED <<activeFetches, lastReturn, batches, batchSeq, blocks,
                 twitterUsers, remote>>
  /\ UNCHANGED <<diffs, lookups, recs, actions, annotated, annotatedSeq,
                 prunes, now,
                 annotatedBlockDefined>>

\* (mutation) the BlockBatch is finalized whatever next_cursor_str is
AfterHandleIdsSealEarly(run) == [run EXCEPT !.pc = "finalize"]

\* Lines 127-134 once Q.all of handleIds resolved with next_cursor_str.
AfterHandleIds(run) ==
  LET nextCursor == NextCursorStr(run.listing, run.cursor)
  IN IF nextCursor = EndCursor
       THEN [run EXCEPT !.pc = "finalize"]     \* blockBatch.complete = true; save()
       ELSE [run EXCEPT !.pc = "request", !.cursor = CurrentCursor(nextCursor)]

\* (mutation) handleIds resolves with the first persistence call to settle
HandleIdsStepNoWait(r, op) ==
  /\ op \in runs[r].pending
  /\ LET run == runs[r]
         id == run.blockBatch
         ids == PageIds(run.listing, run.cursor)
         left == run.pending \ {op}
     IN /\ batches' = IF op = "save" /\ id \in DOMAIN batches
                        THEN [batches EXCEPT ![id].currentCursor = run.cursor,
                                             ![id].size = run.size]
                        ELSE batches
        /\ twitterUsers' = IF op = "users"
                             THEN twitterUsers \cup SeqToSet(ids)
                             ELSE twitterUsers
        /\ blocks' = IF op = "blocks" /\ id \in DOMAIN blocks
                       THEN [blocks EXCEPT ![id] = @ \o ids]
                       ELSE blocks
        /\ runs' = [runs EXCEPT ![r] =
                      IF run.pc = "handle"
                        THEN [AfterHandleIds(run) EXCEPT !.pending = left]
                        ELSE [run EXCEPT !.pending = left]]
  /\ UNCHANGED <<activeFetches, lastReturn, batchSeq, remote, budget>>
  /\ UNCHANGED <<diffs, lookups, recs, actions, annotated, annotatedSeq,
                 prunes, now,
                 annotatedBlockDefined>>

\* One of the three persistence calls of handleIds takes effect.  A call that
\* was issued still lands after another one failed and the run was aborted.
HandleIdsStep(r, op) ==
  /\ op \in runs[r].pending
  /\ LET run == runs[r]
         id == run.blockBatch
         ids == PageIds(run.listing, run.cursor)
         left == run.pending \ {op}
     IN /\ batches' = IF op = "save" /\ id \in DOMAIN batches
                        THEN [batches EXCEPT ![id].currentCursor = run.cursor,
                                             ![id].size = run.size]
                        ELSE batches
        /\ twitterUsers' = IF op = "users"
                             THEN twitterUsers \cup SeqToSet(ids)
                             ELSE twitterUsers
        /\ blocks' = IF op = "blocks" /\ id \in DOMAIN blocks
                       THEN [blocks EXCEPT ![id] = @ \o ids]
                       ELSE blocks
        /\ runs' = [runs EXCEPT ![r] =
                      IF left = {} /\ run.pc = "handle"
                        THEN AfterHandleIds([run EXCEPT !.pending = left])
                        ELSE [run EXCEPT !.pending = left]]
  /\ UNCHANGED <<activeFetches, lastReturn, batchSeq, remote, budget>>
  /\ UNCHANGED <<diffs, lookups, recs, actions, annotated, annotatedSeq,
                 prunes, now,
                 annotatedBlockDefined>>

\* One of the three persistence calls rejects: Q.all rejects at once and the
\* .catch of fetchAndStoreBlocks ends the run; the other calls stay issued.
HandleIdsFails(r, op) ==
  /\ runs[r].pc = "handle"
  /\ op \in runs[r].pending
  /\ budget.db > 0
  /\ budget' = [budget EXCEPT !.db = @ - 1]
  /\ runs' = [runs EXCEPT ![r] =
                Abort([runs[r] EXCEPT !.pending = @ \ {op}], "error")]
  /\ UNCHANGED <<activeFetches, lastReturn, batches, batchSeq, blocks,
                 twitterUsers, remote>>
  /\ UNCHANGED <<diffs, lookups, recs, actions, annotated, annotatedSeq,
                 prunes, now,
                 annotatedBlockDefined>>

NewDiff(batchId, uid) ==
  [source_uid |-> uid, batchId |-> batchId, pc |-> "find",
   current |-> NoBatch, old |-> NoBatch, currentBlocks |-> <<>>,
   added |-> <<>>, removed |-> <<>>, uidsToQuery |-> <<>>]

NewPrune(uid) == [userId |-> uid, pc |-> "find", ids |-> {}]

\* delete activeFetches[blockBatch.source_uid]
ReleaseFetch(uid) == [activeFetches EXCEPT ![uid] = NoRun]

\* finalizeBlockBatch: the save of complete = true resolves (lines 210-216).
FinalizeSaved(r) ==
  /\ runs[r].pc = "finalize"
  /\ LET run == runs[r]
         id == run.blockBatch
     IN /\ batches' = IF id \in DOMAIN batches
                        THEN [batches EXCEPT ![id].complete = TRUE,
                                             ![id].currentCursor = run.cursor,
                                             ![id].size = run.size]
                        ELSE batches
        /\ diffs' = Append(diffs, NewDiff(id, run.user))
        /\ prunes' = Append(prunes, NewPrune(run.user))
        /\ activeFetches' = ReleaseFetch(run.user)
        /\ runs' = [runs EXCEPT ![r] = Abort(run, "sealed")]
  /\ UNCHANGED <<lastReturn, batchSeq, blocks, twitterUsers, remote, budget>>
  /\ UNCHANGED <<lookups, recs, actions, annotated, annotatedSeq, now,
                 annotatedBlockDefined>>

\* The save of complete = true rejects: caught by the .catch of line 135.
FinalizeFails(r) ==
  /\ runs[r].pc = "finalize"
  /\ budget.db > 0
  /\ budget' = [budget EXCEPT !.db = @ - 1]
  /\ runs' = [runs EXCEPT ![r] = Abort(runs[r], "error")]
  /\ UNCHANGED <<activeFetches, lastReturn, batches, batchSeq, blocks,
                 twitterUsers, remote>>
  /\ UNCHANGED <<diffs, lookups, recs, actions, annotated, annotatedSeq,
                 prunes, now,
                 annotatedBlockDefined>>

----------------------------------------------------------------------------
(* diffBatchWithPrevious                                                   *)

\* _.difference(array, values): the elements of array that are not in values,
\* in array's order, each as often as array holds it.
Difference(array, values) ==
  SelectSeq(array, LAMBDA x : x \notin SeqToSet(values))

\* var addedBlockIds = _.difference(currentBlockIds, oldBlockIds);
AddedBlockIds(currentBlockIds, oldBlockIds) ==
  Difference(currentBlockIds, oldBlockIds)

\* (mutation) the arguments of the second difference are not swapped
RemovedBlockIdsSwapped(currentBlockIds, oldBlockIds) ==
  Difference(currentBlockIds, oldBlockIds)

\* var removedBlockIds = _.difference(oldBlockIds, currentBlockIds);
RemovedBlockIds(currentBlockIds, oldBlockIds) ==
  Difference(oldBlockIds, currentBlockIds)

\* The ids of a set of rows, highest first (order: 'id DESC').
RECURSIVE IdDesc(_)
IdDesc(ids) ==
  IF ids = {} THEN <<>>
  ELSE LET top == CHOOSE i \in ids : \A j \in ids : j <= i
       IN <<top>> \o IdDesc(ids \ {top})

\* (mutation) the query lacks id: {lte: currentBatch.id}
PreviousBatchesLatest(uid, batchId) ==
  LET found == IdDesc({i \in DOMAIN batches :
                         /\ batches[i].source_uid = uid
                         /\ batches[i].complete})
  IN SubSeq(found, 1, IF Len(found) < 2 THEN Len(found) ELSE 2)

\* BlockBatch.findAll({where: {source_uid, id: {lte}, complete: true},
\*                     order: 'id DESC', limit: 2})
PreviousBatches(uid, batchId) ==
  LET found == IdDesc({i \in DOMAIN batches :
                         /\ batches[i].source_uid = uid
                         /\ i <= batchId
                         /\ batches[i].complete})
  IN SubSeq(found, 1, IF Len(found) < 2 THEN Len(found) ELSE 2)

\* batch.getBlocks(), then _.pluck(blocks, 'sink_uid')
GetBlocks(batchId) == IF batchId \in DOMAIN blocks THEN blocks[batchId] ELSE <<>>

\* The findAll of line 226 resolves.
DiffFind(d) ==
  /\ diffs[d].pc = "find"
  /\ LET found == PreviousBatches(diffs[d].source_uid, diffs[d].batchId)
     IN diffs' = [diffs EXCEPT ![d] =
          IF Len(found) = 2
            THEN [@ EXCEPT !.pc = "getCurrent", !.current = found[1],
                           !.old = found[2]]
            ELSE [@ EXCEPT !.pc = "done"]]
  /\ UNCHANGED <<syncVars, lookups, recs, actions, annotated, annotatedSeq,
                 prunes, now,
                 annotatedBlockDefined>>

\* currentBatch.getBlocks() resolves (lines 240-242).
DiffGetCurrent(d) ==
  /\ diffs[d].pc = "getCurrent"
  /\ diffs' = [diffs EXCEPT ![d] =
                 [@ EXCEPT !.pc = "getOld",
                           !.currentBlocks = GetBlocks(diffs[d].current)]]
  /\ UNCHANGED <<syncVars, lookups, recs, actions, annotated, annotatedSeq,
                 prunes, now,
                 annotatedBlockDefined>>

NewRec(uid, sink, type, origin) ==
  [source_uid |-> uid, sink_uid |-> sink, type |-> type, origin |-> origin,
   calledAt |-> now, pc |-> "find", prev |-> 0, action |-> 0,
   annotatedBlock |-> 0, failed |-> FALSE]

NewLookup(uid, d, uids) ==
  [source_uid |-> uid, diff |-> d, requested |-> uids, pc |-> "sent",
   status |-> "none", response |-> {}]

LOOKUP_BATCH == 100

\* The successive sink_uids.splice(0, 100) of recordUnblocksUnlessDeactivated.
RECURSIVE Batches(_)
Batches(sink_uids) ==
  IF sink_uids = <<>> THEN <<>>
  ELSE IF Len(sink_uids) <= LOOKUP_BATCH THEN <<sink_uids>>
  ELSE <<SubSeq(sink_uids, 1, LOOKUP_BATCH)>>
         \o Batches(SubSeq(sink_uids, LOOKUP_BATCH + 1, Len(sink_uids)))

\* oldBatch.getBlocks() resolves: the diff is computed, recordAction is called
\* for every added id and recordUnblocksUnlessDeactivated sends its lookups
\* (lines 243-260, 291-298).  uidsToQuery is one `var` of the invocation: when
\* the loop is over it holds the last batch.
DiffGetOld(d) ==
  /\ diffs[d].pc = "getOld"
  /\ LET uid == diffs[d].source_uid
         currentBlockIds == diffs[d].currentBlocks
         oldBlockIds == GetBlocks(diffs[d].old)
         added == AddedBlockIds(currentBlockIds, oldBlockIds)
         removed == RemovedBlockIds(currentBlockIds, oldBlockIds)
         sent == Batches(removed)
     IN /\ diffs' = [diffs EXCEPT ![d] =
                      [@ EXCEPT !.pc = "done", !.added = added,
                                !.removed = removed,
                                !.uidsToQuery = IF sent = <<>> THEN <<>>
                                                ELSE sent[Len(sent)]]]
        /\ recs' = recs \o [i \in 1..Len(added) |->
                              NewRec(uid, added[i], BLOCK, d)]
        /\ lookups' = lookups \o [i \in 1..Len(sent) |->
                                    NewLookup(uid, d, sent[i])]
  /\ UNCHANGED <<syncVars, actions, annotated, annotatedSeq,
                 prunes, now,
                 annotatedBlockDefined>>

----------------------------------------------------------------------------
(* recordUnblocksUnlessDeactivated: the callbacks of users/lookup          *)

\* Identifiers whose accounts the lookup may report (the others are only
\* ever reported absent).
ProbeIds == {1, 2, 100, 101}

\* What a successful users/lookup of `requested` can answer: records for the
\* requested accounts that still exist.
LookupResponses(requested) ==
  {SeqToSet(requested) \cap active : active \in SUBSET ProbeIds}

\* uidsToQuery as the callback of line 299 reads it.
CallbackUids(l) == diffs[lookups[l].diff].uidsToQuery

\* (mutation) the callback does not test indexedResponses[sink_uid]
UnblockedUnchecked(l, response) == CallbackUids(l)

\* uidsToQuery.forEach: the uids with indexedResponses[sink_uid] (lines 308-313)
Unblocked(l, response) == SelectSeq(CallbackUids(l), LAMBDA x : x \in response)

\* err && err.statusCode === 404 (line 300), or another err (line 302)
LookupFails(l, status) ==
  /\ lookups[l].pc = "sent"
  /\ lookups' = [lookups EXCEPT ![l] = [@ EXCEPT !.pc = "done", !.status = status]]
  /\ UNCHANGED <<syncVars, diffs, recs, actions, annotated, annotatedSeq,
                 prunes, now,
                 annotatedBlockDefined>>

\* The lookup succeeds (lines 305-313).
LookupOk(l) ==
  /\ lookups[l].pc = "sent"
  /\ \E response \in LookupResponses(lookups[l].requested) :
       LET unblocked == Unblocked(l, response)
       IN /\ lookups' = [lookups EXCEPT ![l] =
                          [@ EXCEPT !.pc = "done", !.status = "ok",
                                    !.response = response]]
          /\ recs' = recs \o [i \in 1..Len(unblocked) |->
                                NewRec(lookups[l].source_uid, unblocked[i],
                                       UNBLOCK, lookups[l].diff)]
  /\ UNCHANGED <<syncVars, diffs, actions, annotated, annotatedSeq,
                 prunes, now,
                 annotatedBlockDefined>>

----------------------------------------------------------------------------
(* recordAction                                                            *)

DEDUP_WINDOW == 60000

\* (mutation) the query does not exclude the EXTERNAL cause
PrevActionsAnyCause(uid, sink, type, calledAt) ==
  {a \in 1..Len(actions) :
     /\ actions[a].source_uid = uid
     /\ actions[a].sink_uid = sink
     /\ actions[a].type = type
     /\ actions[a].status = DONE
     /\ actions[a].updatedAt > calledAt - DEDUP_WINDOW}

\* Action.find({where: {source_uid, sink_uid, type, cause: {not: EXTERNAL},
\*                      status: DONE, updatedAt: {gt: new Date() - 60 * 1000}}})
\* The threshold is computed when recordAction builds the query (line 370):
\* calledAt is the clock at the call, whenever the query is answered.
PrevActions(uid, sink, type, calledAt) ==
  {a \in 1..Len(actions) :
     /\ actions[a].source_uid = uid
     /\ actions[a].sink_uid = sink
     /\ actions[a].type = type
     /\ actions[a].cause # EXTERNAL
     /\ actions[a].status = DONE
     /\ actions[a].updatedAt > calledAt - DEDUP_WINDOW}

\* Action.create(_.extend(actionContents, {cause: EXTERNAL, cause_uid: null}))
NewAction(uid, sink, type) ==
  [source_uid |-> uid, sink_uid |-> sink, type |-> type, cause |-> EXTERNAL,
   status |-> DONE, updatedAt |-> now]

\* The .then of line 384 up to its AnnotatedBlock call.  AnnotatedBlock is not
\* among the module's bindings (lines 12-18): where no global of that name
\* exists the continuation throws a ReferenceError, which the .catch logs.
WithAssociated(rec, a, type) ==
  IF type \notin {BLOCK, UNBLOCK} \/ ~annotatedBlockDefined
    THEN [rec EXCEPT !.action = a, !.pc = "done", !.failed = TRUE]
    ELSE [rec EXCEPT !.action = a,
                     !.pc = IF type = BLOCK THEN "annotFind" ELSE "destroy"]

\* Action.find resolves (lines 373-383).
RecFind(t) ==
  /\ recs[t].pc = "find"
  /\ LET prev == PrevActions(recs[t].source_uid, recs[t].sink_uid,
                             recs[t].type, recs[t].calledAt)
     IN IF prev = {}
          THEN recs' = [recs EXCEPT ![t] = [@ EXCEPT !.pc = "create"]]
          ELSE \E a \in prev :
                 recs' = [recs EXCEPT ![t] =
                            WithAssociated([recs[t] EXCEPT !.prev = a], a,
                                           actions[a].type)]
  /\ UNCHANGED <<syncVars, diffs, lookups, actions, annotated, annotatedSeq,
                 prunes, now,
                 annotatedBlockDefined>>

\* Action.create resolves.
RecCreate(t) ==
  /\ recs[t].pc = "create"
  /\ actions' = Append(actions, NewAction(recs[t].source_uid, recs[t].sink_uid,
                                          recs[t].type))
  /\ recs' = [recs EXCEPT ![t] =
                WithAssociated(recs[t], Len(actions) + 1, recs[t].type)]
  /\ UNCHANGED <<syncVars, diffs, lookups, annotated, annotatedSeq,
                 prunes, now,
                 annotatedBlockDefined>>

AnnotatedRows(uid, sink) ==
  {row \in annotated : row.source_uid = uid /\ row.sink_uid = sink}

\* AnnotatedBlock.findOrCreate({source_uid, sink_uid}) resolves with the row
\* of the pair, created with the next id when there is none; the callback
\* holds that instance.
RecAnnotFind(t) ==
  /\ recs[t].pc = "annotFind"
  /\ LET rows == AnnotatedRows(recs[t].source_uid, recs[t].sink_uid)
     IN IF rows = {}
          THEN /\ annotatedSeq' = annotatedSeq + 1
               /\ annotated' = annotated \cup
                    {[id |-> annotatedSeq + 1,
                      source_uid |-> recs[t].source_uid,
                      sink_uid |-> recs[t].sink_uid,
                      ActionId |-> 0, shared |-> FALSE]}
               /\ recs' = [recs EXCEPT ![t] =
                             [@ EXCEPT !.pc = "annotSave",
                                       !.annotatedBlock = annotatedSeq + 1]]
          ELSE /\ UNCHANGED <<annotated, annotatedSeq>>
               /\ \E row \in rows :
                    recs' = [recs EXCEPT ![t] =
                               [@ EXCEPT !.pc = "annotSave",
                                         !.annotatedBlock = row.id]]
  /\ UNCHANGED <<syncVars, diffs, lookups, actions, prunes, now,
                 annotatedBlockDefined>>

\* _.merge(annotatedBlock, {..., ActionId, shared}).save() resolves: the
\* instance is saved by its id, so a row destroyed since findOrCreate is not
\* written again and another row of the pair is left alone.
RecAnnotSave(t) ==
  /\ recs[t].pc = "annotSave"
  /\ annotated' =
       {IF row.id = recs[t].annotatedBlock
          THEN [id |-> row.id,
                source_uid |-> recs[t].source_uid,
                sink_uid |-> recs[t].sink_uid,
                ActionId |-> recs[t].action,
                shared |-> actions[recs[t].action].cause = EXTERNAL]
          ELSE row : row \in annotated}
  /\ recs' = [recs EXCEPT ![t] = [@ EXCEPT !.pc = "done"]]
  /\ UNCHANGED <<syncVars, diffs, lookups, actions, annotatedSeq, prunes, now,
                 annotatedBlockDefined>>

\* AnnotatedBlock.destroy({source_uid, sink_uid}) resolves.
RecDestroy(t) ==
  /\ recs[t].pc = "destroy"
  /\ annotated' = annotated \ AnnotatedRows(recs[t].source_uid, recs[t].sink_uid)
  /\ recs' = [recs EXCEPT ![t] = [@ EXCEPT !.pc = "done"]]
  /\ UNCHANGED <<syncVars, diffs, lookups, actions, annotatedSeq, prunes, now,
                 annotatedBlockDefined>>

\* recordAction(source_uid, sink_uid, type) called on its own.
CallRecordAction(uid, sink, type) ==
  /\ budget.calls > 0
  /\ budget' = [budget EXCEPT !.calls = @ - 1]
  /\ recs' = Append(recs, NewRec(uid, sink, type, 0))
  /\ UNCHANGED <<activeFetches, runs, lastReturn, batches, batchSeq, blocks,
                 twitterUsers, remote>>
  /\ UNCHANGED <<diffs, lookups, actions, annotated, annotatedSeq,
                 prunes, now,
                 annotatedBlockDefined>>

\* Half a dedup window of wall-clock time passes.
Tick ==
  /\ budget.ticks > 0
  /\ budget' = [budget EXCEPT !.ticks = @ - 1]
  /\ now' = now + DEDUP_WINDOW \div 2
  /\ UNCHANGED <<activeFetches, runs, lastReturn, batches, batchSeq, blocks,
                 twitterUsers, remote>>
  /\ UNCHANGED <<diffs, lookups, recs, actions, annotated, annotatedSeq,
                 prunes,
                 annotatedBlockDefined>>

----------------------------------------------------------------------------
(* destroyOldBlocks                                                        *)

RETAINED == 4

\* (mutation) the offset is one too small
OldBatchesOffByOne(userId) ==
  LET all == IdDesc({i \in DOMAIN batches : batches[i].source_uid = userId})
  IN {all[k] : k \in RETAINED..Len(all)}

\* (mutation) the rows are ordered by ascending id
OldBatchesAscending(userId) ==
  LET all == IdDesc({i \in DOMAIN batches : batches[i].source_uid = userId})
  IN {all[k] : k \in 1..(Len(all) - RETAINED)}

\* BlockBatch.findAll({where: {source_uid: userId}, offset: 4, order: 'id DESC'})
OldBatches(userId) ==
  LET all == IdDesc({i \in DOMAIN batches : batches[i].source_uid = userId})
  IN {all[k] : k \in (RETAINED + 1)..Len(all)}

\* The findAll of line 325 resolves.
PruneFind(p) ==
  /\ prunes[p].pc = "find"
  /\ LET old == OldBatches(prunes[p].userId)
     IN prunes' = [prunes EXCEPT ![p] =
          IF old # {} THEN [@ EXCEPT !.pc = "destroy", !.ids = old]
                      ELSE [@ EXCEPT !.pc = "done"]]
  /\ UNCHANGED <<syncVars, diffs, lookups, recs, actions, annotated, annotatedSeq,
                 now,
                 annotatedBlockDefined>>

\* BlockBatch.destroy({id: {in: ids}}) resolves; the Blocks of a destroyed
\* BlockBatch go with it.
PruneDestroy(p) ==
  /\ prunes[p].pc = "destroy"
  /\ batches' = [i \in DOMAIN batches \ prunes[p].ids |-> batches[i]]
  /\ blocks' = [i \in DOMAIN blocks \ prunes[p].ids |-> blocks[i]]
  /\ prunes' = [prunes EXCEPT ![p] = [@ EXCEPT !.pc = "done"]]
  /\ UNCHANGED <<activeFetches, runs, lastReturn, batchSeq, twitterUsers,
                 remote, budget>>
  /\ UNCHANGED <<diffs, lookups, recs, actions, annotated, annotatedSeq,
                 now,
                 annotatedBlockDefined>>

----------------------------------------------------------------------------
(* Initial states and specifications.                                      *)

\* Listings /blocks/ids can hold: a sequence of pages of identifiers.
Listings ==
  { << <<>> >>, << <<1>> >>, << <<1>>, <<2>> >>, << <<2>>, <<2>> >> }

EmptyDb ==
  /\ batches = <<>>
  /\ batchSeq = 0
  /\ blocks = <<>>
  /\ twitterUsers = {}
  /\ actions = <<>>
  /\ annotated = {}
  /\ annotatedSeq = 0

NoTasks ==
  /\ activeFetches = [u \in Users |-> NoRun]
  /\ runs = <<>>
  /\ lastReturn = [u \in Users |->
                    [kind |-> "none", run |-> NoRun, warned |-> FALSE]]
  /\ diffs = <<>>
  /\ lookups = <<>>
  /\ recs = <<>>
  /\ prunes = <<>>
  /\ now = 0

Init ==
  /\ NoTasks
  /\ EmptyDb
  /\ annotatedBlockDefined \in BOOLEAN
  /\ remote \in [Users -> {<<a, b>> : a \in Listings, b \in Listings}]
  /\ budget = [runs |-> MaxRuns, rate |-> MaxRateLimits, err |-> MaxErrors,
               db |-> MaxDbErrors, calls |-> 0, ticks |-> 0]

\* A run whose requests and persistence calls all succeed.
SyncOkNext ==
  \/ \E uid \in Users : UpdateBlocks(uid)
  \/ \E r \in 1..Len(runs) : ResponseOk(r)
  \/ \E r \in 1..Len(runs) : CreateBatch(r)
  \/ \E r \in 1..Len(runs), op \in HandleIdsOps : HandleIdsStep(r, op)
  \/ \E r \in 1..Len(runs) : FinalizeSaved(r)

\* Rate limiting and the backoff.
SyncRateNext ==
  \/ \E r \in 1..Len(runs) : ResponseRateLimited(r)
  \/ \E r \in 1..Len(runs) : DelayElapsed(r)

\* Failing requests and persistence calls.
SyncFailNext ==
  \/ \E r \in 1..Len(runs) : ResponseError(r)
  \/ \E r \in 1..Len(runs) : CreateBatchFails(r)
  \/ \E r \in 1..Len(runs), op \in HandleIdsOps : HandleIdsFails(r, op)
  \/ \E r \in 1..Len(runs) : FinalizeFails(r)

SyncNext == SyncOkNext \/ SyncRateNext \/ SyncFailNext

DiffNext ==
  \/ \E d \in 1..Len(diffs) : DiffFind(d)
  \/ \E d \in 1..Len(diffs) : DiffGetCurrent(d)
  \/ \E d \in 1..Len(diffs) : DiffGetOld(d)

LookupNext ==
  \/ \E l \in 1..Len(lookups) : LookupFails(l, "404")
  \/ \E l \in 1..Len(lookups) : LookupFails(l, "error")
  \/ \E l \in 1..Len(lookups) : LookupOk(l)

RecNext ==
  \/ \E t \in 1..Len(recs) : RecFind(t)
  \/ \E t \in 1..Len(recs) : RecCreate(t)
  \/ \E t \in 1..Len(recs) : RecAnnotFind(t)
  \/ \E t \in 1..Len(recs) : RecAnnotSave(t)
  \/ \E t \in 1..Len(recs) : RecDestroy(t)

\* Spec: the runs of an account with rate limits and failures, the diffs they
\* trigger, the deactivation filter and the recorder.  Below five BlockBatches
\* a prune finds nothing to destroy.
Next ==
  \/ SyncNext
  \/ DiffNext
  \/ LookupNext
  \/ RecNext
  \/ \E p \in 1..Len(prunes) : PruneFind(p)

Spec == Init /\ [][Next]_vars

\* SpecSync: the runs, the diffs and the prunes of Spec.  The lookup callbacks
\* and the continuations of recordAction, which write only Actions and
\* AnnotatedBlocks, are left out: their tasks stay pending.
NextSync ==
  \/ SyncNext
  \/ DiffNext
  \/ \E p \in 1..Len(prunes) : PruneFind(p)

SpecSync == Init /\ [][NextSync]_vars

\* SpecLive: the runs alone, with the scheduling the environment provides:
\* every /blocks/ids request is answered, the 15-minute timer fires and every
\* persistence call settles.  Whether an answer is a success, a 429 or an
\* error stays open; the 429s and the errors are finitely many.
RunStep(r) ==
  /\ r \in 1..Len(runs)
  /\ \/ ResponseOk(r)
     \/ DelayElapsed(r)
     \/ CreateBatch(r)
     \/ \E op \in HandleIdsOps : HandleIdsStep(r, op)
     \/ FinalizeSaved(r)

SpecLive ==
  /\ Init
  /\ [][SyncNext]_vars
  /\ \A r \in 1..MaxRuns : WF_vars(RunStep(r))

----------------------------------------------------------------------------
(* SpecRetention: many successive runs of one account over an unchanging   *)
(* one-page listing, with the pruner.  The steps of the diff tasks, which  *)
(* write neither BlockBatches nor Blocks, are left out.                    *)

InitRetention ==
  /\ NoTasks
  /\ EmptyDb
  /\ annotatedBlockDefined = FALSE
  /\ remote = [u \in Users |-> << << <<1>> >> >>]
  /\ budget = [runs |-> MaxRetentionRuns, rate |-> 0, err |-> MaxErrors,
               db |-> 0, calls |-> 0, ticks |-> 0]

PruneNext ==
  \/ \E p \in 1..Len(prunes) : PruneFind(p)
  \/ \E p \in 1..Len(prunes) : PruneDestroy(p)

NextRetention ==
  \/ SyncOkNext
  \/ \E r \in 1..Len(runs) : ResponseError(r)
  \/ PruneNext

SpecRetention == InitRetention /\ [][NextRetention]_vars

----------------------------------------------------------------------------
(* SpecSequential: the caller starts the next run of an account only when  *)
(* the prune of the previous one has finished.                             *)

PrunesDone(uid) ==
  \A p \in 1..Len(prunes) : prunes[p].userId = uid => prunes[p].pc = "done"

UpdateBlocksAfterPrune(uid) ==
  /\ PrunesDone(uid)
  /\ UpdateBlocks(uid)

InitSequential ==
  /\ NoTasks
  /\ EmptyDb
  /\ annotatedBlockDefined = FALSE
  /\ remote = [u \in Users |-> << << <<1>>, <<2>> >> >>]
  /\ budget = [runs |-> MaxSequentialRuns, rate |-> MaxRateLimits, err |-> 0,
               db |-> 0, calls |-> 0, ticks |-> 0]

NextSequential ==
  \/ \E uid \in Users : UpdateBlocksAfterPrune(uid)
  \/ \E r \in 1..Len(runs) : ResponseOk(r)
  \/ \E r \in 1..Len(runs) : CreateBatch(r)
  \/ \E r \in 1..Len(runs), op \in HandleIdsOps : HandleIdsStep(r, op)
  \/ \E r \in 1..Len(runs) : FinalizeSaved(r)
  \/ SyncRateNext
  \/ PruneNext

SpecSequential == InitSequential /\ [][NextSequential]_vars

----------------------------------------------------------------------------
(* SpecRace: successive runs of one account, each started when the prunes  *)
(* of the earlier ones have finished, with the detached diffs running at   *)
(* any later time: a diff may make its query after several newer           *)
(* BlockBatches were sealed and older ones were pruned.  Of a diff only    *)
(* the query is taken; reading and comparing the Blocks is left pending.   *)

InitRace ==
  /\ NoTasks
  /\ EmptyDb
  /\ annotatedBlockDefined = FALSE
  /\ remote = [u \in Users |-> << << <<1>> >> >>]
  /\ budget = [runs |-> MaxSequentialRuns, rate |-> 0, err |-> 0, db |-> 0,
               calls |-> 0, ticks |-> 0]

NextRace ==
  \/ \E uid \in Users : UpdateBlocksAfterPrune(uid)
  \/ \E r \in 1..Len(runs) : ResponseOk(r)
  \/ \E r \in 1..Len(runs) : CreateBatch(r)
  \/ \E r \in 1..Len(runs), op \in HandleIdsOps : HandleIdsStep(r, op)
  \/ \E r \in 1..Len(runs) : FinalizeSaved(r)
  \/ \E d \in 1..Len(diffs) : DiffFind(d)
  \/ PruneNext

SpecRace == InitRace /\ [][NextRace]_vars

----------------------------------------------------------------------------
(* SpecFilter: a first run stores one page of the n blocks 1..n, the next   *)
(* run finds only the new block n + 1, so the diff hands n removed ids to  *)
(* the deactivation filter; n goes beyond one lookup batch.                *)

FilterSizes == {1, 2} \cup {LOOKUP_BATCH + k : k \in 0..MaxOverBatch}

FirstIds(n) == [i \in 1..n |-> i]

InitFilter ==
  /\ NoTasks
  /\ EmptyDb
  /\ annotatedBlockDefined \in BOOLEAN
  /\ \E n \in FilterSizes :
       remote = [u \in Users |-> << <<FirstIds(n)>>, << <<n + 1>> >> >>]
  /\ budget = [runs |-> MaxRuns, rate |-> 0, err |-> 0, db |-> 0,
               calls |-> 0, ticks |-> 0]

NextFilter ==
  \/ SyncOkNext
  \/ DiffNext
  \/ LookupNext
  \/ RecNext

SpecFilter == InitFilter /\ [][NextFilter]_vars

----------------------------------------------------------------------------
(* SpecRecord: recordAction called directly, with the clock running and an *)
(* Action table that may already hold a row another part of the            *)
(* application wrote (cause other than EXTERNAL).                          *)

OtherCauseAction(uid, sink, type) ==
  [source_uid |-> uid, sink_uid |-> sink, type |-> type,
   cause |-> "subscription", status |-> DONE, updatedAt |-> 0]

RecordSinks == {1}
RecordTypes == {BLOCK, UNBLOCK, "mute"}

InitRecord ==
  /\ NoTasks
  /\ batches = <<>>
  /\ batchSeq = 0
  /\ blocks = <<>>
  /\ twitterUsers = {}
  /\ annotatedBlockDefined \in BOOLEAN
  /\ actions \in {<<>>} \cup
       {<<OtherCauseAction(u, x, BLOCK)>> : u \in Users, x \in RecordSinks}
  /\ annotated = {}
  /\ annotatedSeq = 0
  /\ remote = [u \in Users |-> << << <<>> >> >>]
  /\ budget = [runs |-> 0, rate |-> 0, err |-> 0, db |-> 0,
               calls |-> MaxCalls, ticks |-> MaxTicks]

NextRecord ==
  \/ \E u \in Users, x \in RecordSinks, type \in RecordTypes :
       CallRecordAction(u, x, type)
  \/ Tick
  \/ RecNext

SpecRecord == InitRecord /\ [][NextRecord]_vars

----------------------------------------------------------------------------
(* Properties.                                                             *)

\* The pages of a listing one after another.
RECURSIVE Flatten(_)
Flatten(listing) ==
  IF listing = <<>> THEN <<>> ELSE Head(listing) \o Flatten(Tail(listing))

LiveRuns(uid) == {r \in 1..Len(runs) : runs[r].user = uid /\ runs[r].pc # "done"}

CompleteBatches(uid) ==
  {i \in DOMAIN batches : batches[i].source_uid = uid /\ batches[i].complete}

\* C1: whenever a run has reached a terminal outcome (sealed, silent abort on
\* a rate-limited first request, abort after another failure), the account's
\* activeFetches entry no longer holds that run.
C1_RegistryReleasedAtEveryOutcome ==
  \A r \in 1..Len(runs) :
    runs[r].pc = "done" => activeFetches[runs[r].user] # r

\* C2: single-flight.  An account never has two runs in progress, and a run
\* in progress is the one registered in activeFetches, so that a concurrent
\* updateBlocks call starts no second run (and no second BlockBatch is being
\* written).
C2_SingleFlight ==
  \A uid \in Users :
    /\ Cardinality(LiveRuns(uid)) <= 1
    /\ \A r \in LiveRuns(uid) : activeFetches[uid] = r
    /\ Cardinality({runs[r].blockBatch : r \in LiveRuns(uid)} \ {NoBatch}) <= 1

\* C2 witness: updateBlocks was called again while the first run, which has
\* created its BlockBatch, is still in progress; the call returned null.
C2_SecondCallWhileInFlight ==
  \E uid \in Users :
    /\ lastReturn[uid].kind = "null"
    /\ \E r \in LiveRuns(uid) : runs[r].blockBatch # NoBatch

\* C3: rate-limit resumption.  The request that follows a 429 asks for the
\* cursor of the rate-limited request, and the Blocks of a sealed BlockBatch
\* are exactly the pages of the listing in order, each once: what a run
\* without any rate limiting stores.
C3_RateLimitResumption ==
  \A r \in 1..Len(runs) :
    LET run == runs[r]
        n == Len(run.reqs)
    IN /\ \A i \in 1..(n - 1) :
            run.reqs[i][2] = "429" => run.reqs[i + 1][1] = run.reqs[i][1]
       /\ (n > 0 /\ run.reqs[n][2] = "429" /\ run.pc = "request")
            => run.cursor = run.reqs[n][1]
       /\ (run.outcome = "sealed" /\ run.blockBatch \in DOMAIN blocks)
            => blocks[run.blockBatch] = Flatten(run.listing)

\* C3 witness: a run over a two-page listing was rate-limited after its first
\* page was stored, retried and sealed its BlockBatch.
C3_SealedAfterBackoff ==
  \E r \in 1..Len(runs) :
    /\ runs[r].outcome = "sealed"
    /\ Len(runs[r].listing) = 2
    /\ \E i \in 2..Len(runs[r].reqs) : runs[r].reqs[i][2] = "429"
    /\ runs[r].blockBatch \in DOMAIN blocks
    /\ Len(blocks[runs[r].blockBatch]) = 2

\* C9: diff algebra.  For any two sealed BlockBatches A (previous) and B
\* (current) of one account, added(A,B) and removed(A,B) share no identifier,
\* and added(A,B) is removed(B,A).
C9_DiffAlgebra ==
  \A uid \in Users :
    \A a \in CompleteBatches(uid), b \in CompleteBatches(uid) :
      LET A == GetBlocks(a)
          B == GetBlocks(b)
      IN /\ SeqToSet(AddedBlockIds(B, A)) \cap SeqToSet(RemovedBlockIds(B, A)) = {}
         /\ AddedBlockIds(B, A) = RemovedBlockIds(A, B)

\* C9 witness: a diff has compared two sealed BlockBatches of an account that
\* each hold an identifier the other lacks.
C9_DiffWithAddedAndRemoved ==
  \E d \in 1..Len(diffs) :
    /\ diffs[d].pc = "done"
    /\ diffs[d].added # <<>>
    /\ diffs[d].removed # <<>>
    /\ {diffs[d].current, diffs[d].old} \subseteq CompleteBatches(diffs[d].source_uid)

\* How often x occurs in the sequence s.
Occurrences(s, x) == Cardinality({i \in 1..Len(s) : s[i] = x})

\* C10: set semantics.  One diff run calls recordAction at most once for an
\* added identifier and hands a removed identifier to the deactivation filter
\* at most once, also when a BlockBatch holds an identifier twice.
C10_SetSemantics ==
  \A d \in 1..Len(diffs) :
    /\ \A x \in SeqToSet(diffs[d].added) :
         Cardinality({t \in 1..Len(recs) :
                        /\ recs[t].origin = d
                        /\ recs[t].type = BLOCK
                        /\ recs[t].sink_uid = x}) <= 1
    /\ \A x \in SeqToSet(diffs[d].removed) :
         /\ Occurrences(diffs[d].removed, x) <= 1
         /\ Cardinality({l \in 1..Len(lookups) :
                           /\ lookups[l].diff = d
                           /\ x \in SeqToSet(lookups[l].requested)}) <= 1
         /\ \A l \in 1..Len(lookups) :
              lookups[l].diff = d => Occurrences(lookups[l].requested, x) <= 1

ActionRows(uid, sink, type) ==
  {a \in 1..Len(actions) :
     /\ actions[a].source_uid = uid
     /\ actions[a].sink_uid = sink
     /\ actions[a].type = type}

\* The recordAction(uid, sink, BLOCK) calls made so far.
BlockCalls(uid, sink) ==
  {t \in 1..Len(recs) :
     /\ recs[t].source_uid = uid
     /\ recs[t].sink_uid = sink
     /\ recs[t].type = BLOCK}

\* Exactly two recordAction(uid, sink, BLOCK) calls were made, less than a
\* dedup window apart, and both have finished.
TwoBlockCallsDone(uid, sink) ==
  /\ Cardinality(BlockCalls(uid, sink)) = 2
  /\ \A t \in BlockCalls(uid, sink) : recs[t].pc = "done"
  /\ \A t1 \in BlockCalls(uid, sink), t2 \in BlockCalls(uid, sink) :
       recs[t1].calledAt - recs[t2].calledAt < DEDUP_WINDOW

\* C4 (as claimed): two recordAction(source, sink, BLOCK) calls within the
\* dedup window, starting with no Action for the pair, leave exactly one
\* Action row for (source, sink, BLOCK).
C4_DedupOneRow ==
  \A uid \in Users, sink \in RecordSinks :
    (/\ TwoBlockCallsDone(uid, sink)
     /\ \A a \in ActionRows(uid, sink, BLOCK) : actions[a].cause = EXTERNAL)
      => Cardinality(ActionRows(uid, sink, BLOCK)) = 1

\* C4 (amended): the dedup is against Actions of another cause only.  Two
\* recordAction(source, sink, BLOCK) calls within the dedup window leave one
\* row when the table already holds a DONE BLOCK Action of the pair with a
\* cause other than EXTERNAL that was updated less than a dedup window
\* before each of the calls, however late the queries are answered; starting
\* with no Action for the pair each call creates its own EXTERNAL row: two
\* rows.
C4_DedupAgainstOtherCausesOnly ==
  \A uid \in Users, sink \in RecordSinks :
    TwoBlockCallsDone(uid, sink) =>
      LET rows == ActionRows(uid, sink, BLOCK)
          others == {a \in rows : actions[a].cause # EXTERNAL}
      IN /\ (others # {} /\ \A a \in others :
                              /\ actions[a].status = DONE
                              /\ \A t \in BlockCalls(uid, sink) :
                                   actions[a].updatedAt >
                                     recs[t].calledAt - DEDUP_WINDOW)
              => /\ rows = others
                 /\ \A t \in BlockCalls(uid, sink) : recs[t].prev \in others
         /\ others = {}
              => /\ Cardinality(rows) = 2
                 /\ \A t \in BlockCalls(uid, sink) :
                      recs[t].prev = 0 /\ recs[t].action \in rows

\* C4 witness: both calls found the recent Action of another cause and the
\* table still holds that one row.
C4_BothCallsDeduplicated ==
  \E uid \in Users, sink \in RecordSinks :
    /\ TwoBlockCallsDone(uid, sink)
    /\ Cardinality(ActionRows(uid, sink, BLOCK)) = 1
    /\ \A t \in BlockCalls(uid, sink) : recs[t].prev # 0

\* Everything the diff d set off has finished.
DiffSettled(d) ==
  /\ diffs[d].pc = "done"
  /\ \A l \in 1..Len(lookups) : lookups[l].diff = d => lookups[l].pc = "done"
  /\ \A t \in 1..Len(recs) : recs[t].origin = d => recs[t].pc = "done"

\* C5: a removed identifier X whose batch's lookup succeeded with X in the
\* response gets exactly one UNBLOCK Action for (source, X), and the
\* AnnotatedBlock row of (source, X) is deleted, whichever batch X is in.
C5_StillActiveUnblockRecorded ==
  \A l \in 1..Len(lookups) :
    (lookups[l].status = "ok" /\ DiffSettled(lookups[l].diff)) =>
      \A x \in lookups[l].response :
        /\ Cardinality(ActionRows(lookups[l].source_uid, x, UNBLOCK)) = 1
        /\ AnnotatedRows(lookups[l].source_uid, x) = {}

\* The lookups of diff d that asked for x have all been answered, and none
\* of the answers holds x (a 404, another error, or a response without x).
ReportedAbsent(d, x) ==
  \A l \in 1..Len(lookups) :
    (lookups[l].diff = d /\ x \in SeqToSet(lookups[l].requested)) =>
      (lookups[l].pc = "done" /\ x \notin lookups[l].response)

\* C6: for a removed identifier X whose batch's lookup failed (404 or another
\* error) or answered without X, the diff calls recordAction for (source, X)
\* not at all, so it records no Action for the pair; and an AnnotatedBlock
\* row changes only in a step of a recordAction call for its pair.
C6_SuppressedNothingRecorded ==
  /\ [](\A d \in 1..Len(diffs) :
          \A x \in SeqToSet(diffs[d].removed) :
            ReportedAbsent(d, x) =>
              \A t \in 1..Len(recs) :
                ~(recs[t].origin = d /\ recs[t].sink_uid = x))
  /\ [][\A uid \in Users, x \in ProbeIds :
          AnnotatedRows(uid, x)' # AnnotatedRows(uid, x) =>
            \E t \in 1..Len(recs) :
              /\ recs[t].source_uid = uid
              /\ recs[t].sink_uid = x
              /\ recs'[t].pc # recs[t].pc]_vars

\* C6 witness: more removed identifiers than one lookup batch; the lookup of
\* one batch was answered 404 and the lookup of the other succeeded and made
\* the filter record an unblock; everything the diff set off has finished
\* and no Action exists for an identifier of the batch answered 404.
C6_BatchNotFound ==
  \E l \in 1..Len(lookups) :
    /\ lookups[l].status = "404"
    /\ Len(diffs[lookups[l].diff].removed) > LOOKUP_BATCH
    /\ DiffSettled(lookups[l].diff)
    /\ \E t \in 1..Len(recs) :
         recs[t].origin = lookups[l].diff /\ recs[t].type = UNBLOCK
    /\ \A x \in SeqToSet(lookups[l].requested) :
         ActionRows(lookups[l].source_uid, x, UNBLOCK) = {}

\* The k highest of a set of ids.
Newest(ids, k) ==
  LET desc == IdDesc(ids)
  IN {desc[i] : i \in 1..(IF Len(desc) < k THEN Len(desc) ELSE k)}

BatchesOf(uid) == {i \in DOMAIN batches : batches[i].source_uid = uid}

SealedRuns(uid) ==
  {r \in 1..Len(runs) : runs[r].user = uid /\ runs[r].outcome = "sealed"}

\* C7: after n sealed syncs of an account, each started after the prune of
\* the one before had finished, exactly min(n, 4) BlockBatches of the account
\* remain, all complete: those with the highest ids.
C7_SequentialRetention ==
  \A uid \in Users :
    (/\ LiveRuns(uid) = {}
     /\ PrunesDone(uid)
     /\ \A r \in 1..Len(runs) :
          runs[r].user = uid => (runs[r].outcome = "sealed" /\ runs[r].afterPrune))
      => LET n == Cardinality(SealedRuns(uid))
             made == {runs[r].blockBatch : r \in SealedRuns(uid)}
         IN /\ Cardinality(BatchesOf(uid)) = (IF n < RETAINED THEN n ELSE RETAINED)
            /\ BatchesOf(uid) = Newest(made, RETAINED)
            /\ \A i \in BatchesOf(uid) : batches[i].complete

\* C7 witness: six syncs were sealed one after another, the last prune has
\* finished, four BlockBatches remain and the two oldest are gone.
C7_SixSyncsFourLeft ==
  \E uid \in Users :
    /\ Cardinality(SealedRuns(uid)) = 6
    /\ LiveRuns(uid) = {}
    /\ PrunesDone(uid)
    /\ Cardinality(BatchesOf(uid)) = 4
    /\ \A r \in SealedRuns(uid) :
         runs[r].blockBatch \notin BatchesOf(uid) =>
           \A i \in BatchesOf(uid) : runs[r].blockBatch < i

\* The BlockBatches the step destroys.
Destroyed == DOMAIN batches \ DOMAIN batches'

\* C8 (as claimed): no prune run destroys one of the account's four
\* highest-id complete BlockBatches.
C8_NewestCompleteKept ==
  [][\A p \in 1..Len(prunes) :
       (prunes[p].pc = "destroy" /\ prunes'[p].pc = "done") =>
         Destroyed \cap Newest(CompleteBatches(prunes[p].userId), RETAINED) = {}]_vars

\* C8 (amended): no prune run destroys one of the account's four highest-id
\* BlockBatches, complete or not.
C8_NewestKept ==
  [][\A p \in 1..Len(prunes) :
       (prunes[p].pc = "destroy" /\ prunes'[p].pc = "done") =>
         /\ Destroyed = prunes[p].ids \cap DOMAIN batches
         /\ Destroyed \cap Newest(BatchesOf(prunes[p].userId), RETAINED) = {}]_vars

\* C8 witness: a prune has destroyed BlockBatches and the account has a
\* BlockBatch that is not complete.
C8_PrunedBesideIncomplete ==
  \E p \in 1..Len(prunes) :
    /\ prunes[p].pc = "done"
    /\ prunes[p].ids # {}
    /\ \E i \in BatchesOf(prunes[p].userId) : ~batches[i].complete

\* The Actions the recordAction calls of diff d created for sink x.
CreatedBy(d, x, type) ==
  {recs[t].action : t \in {u \in 1..Len(recs) :
                             /\ recs[u].origin = d
                             /\ recs[u].sink_uid = x
                             /\ recs[u].type = type
                             /\ recs[u].prev = 0
                             /\ recs[u].action # 0}}

\* C11: once everything a diff set off has finished, every added identifier
\* has exactly one BLOCK Action with cause EXTERNAL recorded by that diff, and
\* an AnnotatedBlock row of (source, id) exists that points at that Action
\* and has shared = TRUE.
C11_AddedBlockRecordedAndAnnotated ==
  \A d \in 1..Len(diffs) :
    DiffSettled(d) =>
      \A x \in SeqToSet(diffs[d].added) :
        LET made == CreatedBy(d, x, BLOCK)
        IN /\ Cardinality(made) = 1
           /\ \A a \in made : actions[a].cause = EXTERNAL
           /\ \E row \in AnnotatedRows(diffs[d].source_uid, x) :
                row.ActionId \in made /\ row.shared

\* C12: a recordAction call with a type other than BLOCK or UNBLOCK fails and
\* leaves the Action table and the AnnotatedBlock table as they were: it
\* creates no Action row and touches no AnnotatedBlock row.
C12_InvalidTypeNoSideEffects ==
  [][\A t \in 1..Len(recs) :
       (recs[t].type \notin {BLOCK, UNBLOCK} /\ recs'[t].pc # recs[t].pc) =>
         /\ actions' = actions
         /\ annotated' = annotated
         /\ recs'[t].pc = "done" => recs'[t].failed]_vars

\* C13 (as claimed): an updateBlocks call for an account with a registered
\* fetch returns the registered promise, the one the first call returned.
C13_ReturnsExistingHandle ==
  [][\A uid \in Users :
       (activeFetches[uid] # NoRun /\ lastReturn'[uid] # lastReturn[uid]) =>
         /\ lastReturn'[uid].kind = "promise"
         /\ lastReturn'[uid].run = activeFetches[uid]]_vars

\* C13 (amended): an updateBlocks call for an account with a registered fetch
\* returns a new promise already resolved with null, starts no run and leaves
\* the registration as it is.
C13_ReturnsResolvedNull ==
  [][\A uid \in Users :
       (activeFetches[uid] # NoRun /\ lastReturn'[uid] # lastReturn[uid]) =>
         /\ lastReturn'[uid].kind = "null"
         /\ lastReturn'[uid].run = NoRun
         /\ activeFetches' = activeFetches
         /\ runs' = runs]_vars

\* C13 witness: the latest updateBlocks call returned null while the run the
\* first call registered is storing a page.
C13_NullWhileStoringPage ==
  \E uid \in Users :
    /\ lastReturn[uid].kind = "null"
    /\ activeFetches[uid] # NoRun
    /\ runs[activeFetches[uid]].pc = "handle"

\* The run that created BlockBatch i.
RunOf(i) == CHOOSE r \in 1..Len(runs) : runs[r].blockBatch = i

\* BlockBatch i is sealed and holds every page of its run's listing, from the
\* start cursor through the page that returned "0", each once.
SealedWhole(i) ==
  /\ i \in DOMAIN batches
  /\ batches[i].complete
  /\ runs[RunOf(i)].outcome = "sealed"
  /\ blocks[i] = Flatten(runs[RunOf(i)].listing)

\* C14: the diff only reads sealed BlockBatches.  The two BlockBatches a diff
\* selects are complete and whole when it selects them; whenever it reads the
\* Blocks of one that still exists, that one is complete and whole; a
\* BlockBatch is marked complete only by a run that has stored its last page
\* and has not been aborted, and a complete BlockBatch stays whole.
C14_DiffReadsSealedOnly ==
  /\ [](\A i \in DOMAIN batches : batches[i].complete => SealedWhole(i))
  /\ [][\A d \in 1..Len(diffs) :
          /\ (diffs[d].pc = "find" /\ diffs'[d].pc = "getCurrent") =>
               /\ SealedWhole(diffs'[d].current)
               /\ SealedWhole(diffs'[d].old)
               /\ diffs'[d].old < diffs'[d].current
          /\ (diffs[d].pc = "getCurrent" /\ diffs'[d].pc = "getOld"
                /\ diffs[d].current \in DOMAIN batches) =>
               /\ SealedWhole(diffs[d].current)
               /\ diffs'[d].currentBlocks = Flatten(runs[RunOf(diffs[d].current)].listing)
          /\ (diffs[d].pc = "getOld" /\ diffs'[d].pc = "done"
                /\ diffs[d].old \in DOMAIN batches) =>
               SealedWhole(diffs[d].old)]_vars
  /\ [][\A r \in 1..Len(runs) :
          (runs[r].blockBatch \in DOMAIN batches
             /\ ~batches[runs[r].blockBatch].complete
             /\ batches'[runs[r].blockBatch].complete) =>
            /\ runs[r].pc = "finalize"
            /\ runs[r].pending = {}
            /\ runs[r].outcome = "none"
            /\ runs[r].reqs[Len(runs[r].reqs)][2] = "ok"
            /\ NextCursorStr(runs[r].listing, runs[r].cursor) = EndCursor
            /\ blocks[runs[r].blockBatch] = Flatten(runs[r].listing)]_vars

\* C14 witness: a diff has read and compared two BlockBatches, the current
\* one written over two pages with a rate-limit backoff in between.
C14_DiffOfTwoPageBatch ==
  \E d \in 1..Len(diffs) :
    /\ diffs[d].pc = "done"
    /\ diffs[d].current \in DOMAIN batches
    /\ diffs[d].old \in DOMAIN batches
    /\ Len(runs[RunOf(diffs[d].current)].listing) = 2
    /\ \E i \in 1..Len(runs[RunOf(diffs[d].current)].reqs) :
         runs[RunOf(diffs[d].current)].reqs[i][2] = "429"

IncompleteBatches(uid) ==
  {i \in DOMAIN batches : batches[i].source_uid = uid /\ ~batches[i].complete}

\* C15: an account never has more than one BlockBatch with complete = FALSE,
\* also after runs that were aborted by an error once their BlockBatch
\* existed.
C15_AtMostOneIncomplete ==
  \A uid \in Users : Cardinality(IncompleteBatches(uid)) <= 1

\* C15 witness: a run was aborted by an error after it had created its
\* BlockBatch, which stays incomplete, and updateBlocks was called again for
\* the account afterwards.
C15_CalledAgainAfterAbort ==
  \E uid \in Users :
    /\ IncompleteBatches(uid) # {}
    /\ LiveRuns(uid) = {}
    /\ \E r \in 1..Len(runs) :
         /\ runs[r].user = uid
         /\ runs[r].outcome = "error"
         /\ runs[r].blockBatch \in IncompleteBatches(uid)
    /\ lastReturn[uid].warned

\* Nothing of the account is running or pending: no run, diff, lookup or
\* recordAction call.
AllSettled(uid) ==
  /\ LiveRuns(uid) = {}
  /\ \A r \in 1..Len(runs) : runs[r].user = uid => runs[r].pending = {}
  /\ \A d \in 1..Len(diffs) : diffs[d].source_uid = uid => diffs[d].pc = "done"
  /\ \A l \in 1..Len(lookups) :
       lookups[l].source_uid = uid => lookups[l].pc = "done"
  /\ \A t \in 1..Len(recs) : recs[t].source_uid = uid => recs[t].pc = "done"

\* C16: whenever all the work of an account has finished and the account has
\* a sealed BlockBatch, an AnnotatedBlock row of (source, sink) exists exactly
\* when sink is a Block of the account's newest complete BlockBatch.
C16_AnnotatedIffBlocked ==
  \A uid \in Users :
    (AllSettled(uid) /\ CompleteBatches(uid) # {}) =>
      LET latest == CHOOSE i \in CompleteBatches(uid) :
                      \A j \in CompleteBatches(uid) : j <= i
      IN \A sink \in ProbeIds :
           (AnnotatedRows(uid, sink) # {}) <=> (sink \in SeqToSet(GetBlocks(latest)))

\* C17: lazy BlockBatch creation.  A run whose first request is answered 429
\* ends there, silently: no retry, no BlockBatch; the step writes no
\* BlockBatch, Block or TwitterUser.  A run has a BlockBatch only after a
\* successful response to its first request, and every BlockBatch was
\* created by such a run.
C17_LazyCreation ==
  /\ [](/\ \A r \in 1..Len(runs) :
            /\ (Len(runs[r].reqs) > 0 /\ runs[r].reqs[1][2] = "429") =>
                 /\ runs[r].pc = "done"
                 /\ runs[r].outcome = "silent"
                 /\ Len(runs[r].reqs) = 1
                 /\ runs[r].blockBatch = NoBatch
            /\ runs[r].blockBatch # NoBatch =>
                 (Len(runs[r].reqs) > 0 /\ runs[r].reqs[1] = <<StartCursor, "ok">>)
        /\ batchSeq = Cardinality({r \in 1..Len(runs) :
                                     runs[r].blockBatch # NoBatch}))
  /\ [][\A r \in 1..Len(runs) :
          (Len(runs[r].reqs) = 0 /\ Len(runs'[r].reqs) = 1
             /\ runs'[r].reqs[1][2] = "429") =>
            /\ batches' = batches
            /\ blocks' = blocks
            /\ twitterUsers' = twitterUsers]_vars

\* C17 witness: the first request of an account's second run was answered
\* 429; the run is over and the store holds the first run's BlockBatch only.
C17_SecondRunSilentlyAborted ==
  \E r \in 2..Len(runs) :
    /\ runs[r].outcome = "silent"
    /\ runs[r].reqs = << <<StartCursor, "429">> >>
    /\ batchSeq = 1
    /\ DOMAIN batches = {1}

\* The cursor of the request that follows an answered one in the same run.
FollowingCursor(req) ==
  IF req[2] = "ok" THEN Cursors[PageIndex(req[1]) + 1] ELSE req[1]

\* C18: the requests of a run go through the cursors in order from "-1" (a
\* 429 repeats its cursor), and while a request for a later page is
\* outstanding every persistence call of the earlier pages has settled: the
\* BlockBatch holds the Blocks of exactly those pages, their count as size and
\* the cursor of the page before as currentCursor.  A run has one request
\* outstanding at most: its single position.
C18_PagesInOrderAfterPersistence ==
  \A r \in 1..Len(runs) :
    LET run == runs[r]
        n == Len(run.reqs)
        b == run.blockBatch
        k == PageIndex(run.cursor)
        stored == Flatten(SubSeq(run.listing, 1, k - 1))
    IN /\ n > 0 => run.reqs[1][1] = StartCursor
       /\ \A i \in 1..(n - 1) : run.reqs[i + 1][1] = FollowingCursor(run.reqs[i])
       /\ run.pc = "request" =>
            /\ run.cursor = IF n = 0 THEN StartCursor
                            ELSE FollowingCursor(run.reqs[n])
            /\ run.pending = {}
            /\ b = NoBatch => k = 1
            /\ (b # NoBatch /\ b \in DOMAIN batches) =>
                 /\ k > 1
                 /\ blocks[b] = stored
                 /\ batches[b].size = Len(stored)
                 /\ batches[b].currentCursor = Cursors[k - 1]
                 /\ SeqToSet(stored) \subseteq twitterUsers

\* C18 witness: the request for the second page of a two-page listing is
\* outstanding and the first page is stored.
C18_SecondPageRequested ==
  \E r \in 1..Len(runs) :
    /\ runs[r].pc = "request"
    /\ runs[r].cursor = Cursors[2]
    /\ runs[r].blockBatch \in DOMAIN blocks
    /\ blocks[runs[r].blockBatch] = runs[r].listing[1]
    /\ blocks[runs[r].blockBatch] # <<>>

Terminal == {"sealed", "silent", "error"}

\* C19: termination.  With finitely many pages, 429s and errors, every run
\* that was started reaches a terminal outcome (sealed, silently aborted or
\* error-aborted) and is over; it has an outcome exactly when it is over and
\* never changes it; and a run waiting to retry after a 429 is still the one
\* registered in activeFetches.
C19_Termination ==
  /\ \A r \in 1..MaxRuns :
       (r <= Len(runs)) ~>
         (r <= Len(runs) /\ runs[r].pc = "done" /\ runs[r].outcome \in Terminal)
  /\ [](\A r \in 1..Len(runs) :
          /\ (runs[r].pc = "done") <=> (runs[r].outcome \in Terminal)
          /\ runs[r].outcome \in Terminal \cup {"none"}
          /\ runs[r].pc = "delay" =>
               /\ activeFetches[runs[r].user] = r
               /\ runs[r].blockBatch # NoBatch)
  /\ [][\A r \in 1..Len(runs) :
          runs[r].pc = "done" =>
            (runs'[r].pc = "done" /\ runs'[r].outcome = runs[r].outcome)]_vars

\* C19 witness: a run that went through a backoff is over and sealed, and a
\* run before it was aborted silently.
C19_SealedAfterRetryAndSilentAbort ==
  \E r1 \in 1..Len(runs), r2 \in 1..Len(runs) :
    /\ runs[r1].outcome = "sealed"
    /\ \E i \in 1..Len(runs[r1].reqs) : runs[r1].reqs[i][2] = "429"
    /\ runs[r2].outcome \in {"silent", "error"}

\* The BlockBatches the account's runs have sealed, pruned ones included.
SealedBatchIds(uid) == {runs[r].blockBatch : r \in SealedRuns(uid)}

\* The sealed BlockBatches of the account below b.
SealedBelow(uid, b) == {a \in SealedBatchIds(uid) : a < b}

\* The sealed BlockBatch right before b (NoBatch when b is the first).
Pred(uid, b) ==
  IF SealedBelow(uid, b) = {} THEN NoBatch
  ELSE CHOOSE a \in SealedBelow(uid, b) : \A c \in SealedBelow(uid, b) : c <= a

\* The diffs that compared current with old.
DiffsOf(current, old) ==
  {d \in 1..Len(diffs) : diffs[d].current = current /\ diffs[d].old = old}

\* C20 (as claimed): the diff triggered by sealing S always compares S with
\* the sealed BlockBatch right before it, whenever its query runs, and once
\* every diff has made its query each pair of consecutive sealed BlockBatches
\* has been compared exactly once.
C20_EveryConsecutivePairDiffedOnce ==
  /\ [][\A d \in 1..Len(diffs) :
          (diffs[d].pc = "find" /\ diffs'[d].pc # "find"
             /\ Pred(diffs[d].source_uid, diffs[d].batchId) # NoBatch) =>
            /\ diffs'[d].current = diffs[d].batchId
            /\ diffs'[d].old = Pred(diffs[d].source_uid, diffs[d].batchId)]_vars
  /\ [](\A uid \in Users :
          (\A d \in 1..Len(diffs) : diffs[d].pc # "find") =>
            \A b \in SealedBatchIds(uid) :
              Pred(uid, b) # NoBatch =>
                Cardinality(DiffsOf(b, Pred(uid, b))) = 1)

\* C20 (amended): the diff triggered by sealing S compares S with the sealed
\* BlockBatch right before it when both still exist as its query runs, also
\* after newer runs have started or sealed; when the pruner has destroyed one
\* of the two by then, or S is the account's first, it compares nothing.  A
\* diff never compares another pair, every sealed BlockBatch triggers one
\* diff, and no pair is compared twice.
C20_DiffsPredecessorUnlessPruned ==
  /\ [][\A d \in 1..Len(diffs) :
          (diffs[d].pc = "find" /\ diffs'[d].pc # "find") =>
            LET S == diffs[d].batchId
                P == Pred(diffs[d].source_uid, S)
            IN IF P # NoBatch /\ {S, P} \subseteq DOMAIN batches
                 THEN /\ diffs'[d].pc = "getCurrent"
                      /\ diffs'[d].current = S
                      /\ diffs'[d].old = P
                 ELSE /\ diffs'[d].pc = "done"
                      /\ diffs'[d].current = NoBatch]_vars
  /\ [](\A uid \in Users :
          /\ \A b \in SealedBatchIds(uid) :
               /\ Cardinality({d \in 1..Len(diffs) : diffs[d].batchId = b}) = 1
               /\ \A a \in SealedBatchIds(uid) :
                    Cardinality(DiffsOf(b, a)) <= (IF a = Pred(uid, b) THEN 1 ELSE 0)
          /\ \A d \in 1..Len(diffs) :
               /\ diffs[d].batchId \in SealedBatchIds(diffs[d].source_uid)
               /\ diffs[d].current \in {NoBatch, diffs[d].batchId})

\* C20 witness: one diff made its query after a newer BlockBatch had been
\* sealed and compared its BlockBatch with the one right before it; another
\* diff found the BlockBatch before its own pruned and compared nothing.
C20_LateDiffAndPrunedPredecessor ==
  \E d1 \in 1..Len(diffs), d2 \in 1..Len(diffs) :
    /\ diffs[d1].current = diffs[d1].batchId
    /\ diffs[d1].old = Pred(diffs[d1].source_uid, diffs[d1].batchId)
    /\ diffs[d1].old # NoBatch
    /\ diffs[d2].pc = "done"
    /\ diffs[d2].current = NoBatch
    /\ Pred(diffs[d2].source_uid, diffs[d2].batchId) # NoBatch
    /\ diffs[d2].batchId \in DOMAIN batches

====
